---------------------------- MODULE Spec2Model ----------------------------
(***************************************************************************)
(* A model of youtube_downloader.py: the Tk application App (its UI         *)
(* variables, the download button, the event loop's queue of after(0, ...)  *)
(* calls), the worker threads App.start_download starts, the yt-dlp call    *)
(* as the sequence of hook calls it makes, and the helpers                  *)
(* is_youtube_url, app_base_dir, find_ffmpeg_folder and make_ydl_opts.      *)
(*                                                                         *)
(* Text is a sequence of one-character strings, so that lower(), strip()    *)
(* and the substring test of Python's "in" are computed, not assumed.       *)
(***************************************************************************)
EXTENDS Integers, Sequences, FiniteSets, TLC

\* Worker threads the model lets start_download create.
MaxRuns == 2
\* Hook calls (progress "downloading"/other, post-processing) yt-dlp makes in one run.
MaxEvents == 1

VARIABLES
    url_var,       \* App.url_var: text of the URL entry
    out_var,       \* App.out_var: text of the output-folder entry
    status_var,    \* App.status_var
    note_var,      \* App.note_var
    progress_var,  \* App.progress_var (percent)
    btn_state,     \* state of App.btn_download: "normal" or "disabled"
    msgbox,        \* the messagebox.showerror(title, message) of the UI thread's
                   \* latest callback, NoBox when it showed none
    after_queue,   \* the event loop's pending after(0, f) calls, oldest first
    threads,       \* the threading.Thread objects start_download created
    nstarted,      \* how many threads were created
    made_dirs,     \* directories Path(out_dir).mkdir created
    fs,            \* the filesystem: directory -> the tool files in it
    frozen,        \* sys.frozen
    meipass,       \* sys._MEIPASS (NoPath when the attribute is missing)
    arg,           \* the argument of a helper called on its own
    ret            \* the value that call returned

uivars == <<status_var, note_var, progress_var, btn_state, msgbox>>
envvars == <<fs, frozen, meipass>>
callvars == <<arg, ret>>
vars == <<url_var, out_var, status_var, note_var, progress_var, btn_state, msgbox,
          after_queue, threads, nstarted, made_dirs, fs, frozen, meipass, arg, ret>>

----------------------------------------------------------------------------
(* Text *)

Upper == <<"A","B","C","D","E","F","G","H","I","J","K","L","M",
           "N","O","P","Q","R","S","T","U","V","W","X","Y","Z">>
Lower == <<"a","b","c","d","e","f","g","h","i","j","k","l","m",
           "n","o","p","q","r","s","t","u","v","w","x","y","z">>

\* str.lower() of one character.
lower_char(c) ==
    IF \E i \in 1..26 : Upper[i] = c
    THEN Lower[CHOOSE i \in 1..26 : Upper[i] = c]
    ELSE c

\* str.lower()
lower(s) == [i \in 1..Len(s) |-> lower_char(s[i])]

\* Python's  needle in s  for strings.
str_in(needle, s) ==
    \E i \in 0..(Len(s) - Len(needle)) : SubSeq(s, i + 1, i + Len(needle)) = needle

Whitespace == {" ", "\t", "\n"}

RECURSIVE lstrip(_)
lstrip(s) == IF s # <<>> /\ Head(s) \in Whitespace THEN lstrip(Tail(s)) ELSE s

RECURSIVE rstrip(_)
rstrip(s) ==
    IF s # <<>> /\ s[Len(s)] \in Whitespace THEN rstrip(SubSeq(s, 1, Len(s) - 1)) ELSE s

\* str.strip()
strip(s) == rstrip(lstrip(s))

\* The None object where a string is expected: no text equals it, since every
\* element of a text is one character.
NoneStr == <<"None">>

\* The strings the URL check looks for.
YOUTUBE_COM == <<"y","o","u","t","u","b","e",".","c","o","m">>
YOUTU_BE == <<"y","o","u","t","u",".","b","e">>

\* url or ""
url_or_empty(url) == IF url = NoneStr \/ url = <<>> THEN <<>> ELSE url

is_youtube_url_nolower(url) ==
    LET u == url_or_empty(url)
    IN  str_in(YOUTUBE_COM, u) \/ str_in(YOUTU_BE, u)

is_youtube_url(url) ==
    LET u == lower(url_or_empty(url))
    IN  str_in(YOUTUBE_COM, u) \/ str_in(YOUTU_BE, u)

----------------------------------------------------------------------------
(* The muxer probe *)

\* A path is its sequence of components; NoPath is None (and the empty string).
NoPath == <<>>
MEI_DIR == <<"_MEI">>
EXE_DIR == <<"exedir">>
SCRIPT_DIR == <<"scriptdir">>

Dirs == {MEI_DIR, EXE_DIR, SCRIPT_DIR, EXE_DIR \o <<"ffmpeg">>, SCRIPT_DIR \o <<"ffmpeg">>}
ToolFiles == {"ffmpeg.exe", "ffprobe.exe"}

\* Path.exists() of  dir / file
exists(dir, file) == dir \in DOMAIN fs /\ file \in fs[dir]

app_base_dir == IF frozen THEN EXE_DIR ELSE SCRIPT_DIR

candidates_base_first ==
    <<app_base_dir, app_base_dir \o <<"ffmpeg">>>>
        \o (IF meipass # NoPath THEN <<meipass>> ELSE <<>>)

\* The list  candidates  of find_ffmpeg_folder.
candidates ==
    (IF meipass # NoPath THEN <<meipass>> ELSE <<>>)
        \o <<app_base_dir, app_base_dir \o <<"ffmpeg">>>>

\* The test of the loop body.
qualifies(c) == exists(c, "ffmpeg.exe") /\ exists(c, "ffprobe.exe")

\* The for loop: the first candidate that qualifies, else None.
find_ffmpeg_folder ==
    LET hits == {i \in 1..Len(candidates) : qualifies(candidates[i])}
    IN  IF hits = {} THEN NoPath
        ELSE candidates[CHOOSE i \in hits : \A j \in hits : i <= j]


----------------------------------------------------------------------------
(* make_ydl_opts: the format strategy and the options *)

\* A format expression is its "/"-separated alternatives, oldest first; an
\* alternative is its "+"-joined selectors; a selector is its name and its
\* [..] filters.
Sel(name, filters) == [sel |-> name, filters |-> filters]

\* "bv*[ext=mp4]+ba[ext=m4a]/bv*+ba/best"
FMT_MERGE ==
    << <<Sel("bv*", {"ext=mp4"}), Sel("ba", {"ext=m4a"})>>,
       <<Sel("bv*", {}), Sel("ba", {})>>,
       <<Sel("best", {})>> >>

\* "best[vcodec!=none][acodec!=none][ext=mp4]/best[vcodec!=none][acodec!=none]/best"
FMT_SINGLE ==
    << <<Sel("best", {"vcodec!=none", "acodec!=none", "ext=mp4"})>>,
       <<Sel("best", {"vcodec!=none", "acodec!=none"})>>,
       <<Sel("best", {})>> >>

\* A note text is its parts in order, as a status text is.
NOTE_DETECTED == <<"FFmpeg detected: Highest quality (video+audio merge) enabled.">>
NOTE_NOT_DETECTED ==
    <<"FFmpeg not detected: using single-file format (sound guaranteed, may be <=720p).">>

format_for_swapped(ffmpeg_loc) == IF ffmpeg_loc # NoPath THEN FMT_SINGLE ELSE FMT_MERGE

\* fmt, by  if ffmpeg_loc:
format_for(ffmpeg_loc) == IF ffmpeg_loc # NoPath THEN FMT_MERGE ELSE FMT_SINGLE

\* The note passed to ui_note in the same branch.
note_for(ffmpeg_loc) == IF ffmpeg_loc # NoPath THEN NOTE_DETECTED ELSE NOTE_NOT_DETECTED

\* os.path.join(out_dir, "%(title)s [%(id)s].%(ext)s")
outtmpl_for(out_dir) == <<out_dir, "%(title)s [%(id)s].%(ext)s">>

\* The dict make_ydl_opts returns: its keys are the record's fields.
ydl_opts_for(ffmpeg_loc, out_dir) ==
    LET base == [format |-> format_for(ffmpeg_loc),
                 outtmpl |-> outtmpl_for(out_dir),
                 noplaylist |-> TRUE,
                 quiet |-> TRUE,
                 no_warnings |-> TRUE,
                 progress_hooks |-> <<"progress_hook">>,
                 postprocessor_hooks |-> <<"postprocessor_hook">>,
                 retries |-> 3,
                 fragment_retries |-> 3]
    IN  IF ffmpeg_loc # NoPath
        THEN base @@ [ffmpeg_location |-> ffmpeg_loc, merge_output_format |-> "mp4"]
        ELSE base

\* The streams a video can offer: which tracks each holds and its container.
Streams ==
    {s \in [video : BOOLEAN, audio : BOOLEAN, ext : {"mp4", "m4a", "webm"}] :
        s.video \/ s.audio}

\* Which streams a selector of the two expressions accepts: "best" a stream with
\* both tracks, "bv*" a stream with a video track, "ba" an audio-only stream;
\* each filter narrows the choice.
selector_matches(s, f) ==
    /\ CASE s.sel = "best" -> f.video /\ f.audio
         [] s.sel = "bv*"  -> f.video
         [] s.sel = "ba"   -> f.audio /\ ~f.video
    /\ ("ext=mp4" \in s.filters => f.ext = "mp4")
    /\ ("ext=m4a" \in s.filters => f.ext = "m4a")
    /\ ("vcodec!=none" \in s.filters => f.video)
    /\ ("acodec!=none" \in s.filters => f.audio)

----------------------------------------------------------------------------
(* Messages and deferred calls *)

\* A status text is its parts in order (an f-string's literal and its values); k
\* names the state of the download the text stands for.
MsgIdle == [k |-> "Idle", text |-> <<"Idle">>]
MsgStarting == [k |-> "Starting", text |-> <<"Starting...">>]
\* f"Downloading... {pct:.1f}%" (the speed and ETA parts are left out)
MsgDownloading(pct) == [k |-> "Downloading", text |-> <<"Downloading... ", pct, "%">>]
MsgFinished == [k |-> "Processing", text |-> <<"Download finished. Processing/merging...">>]
\* f"Done: {title}"
MsgDone(title) == [k |-> "Done", text |-> <<"Done: ", title>>]
MsgFailed == [k |-> "Failed", text |-> <<"Failed.">>]

NoBox == [title |-> "", message |-> ""]
BOX_BAD_URL == [title |-> "Invalid input", message |-> "Please paste a valid YouTube URL."]
BOX_NO_FOLDER == [title |-> "Invalid input", message |-> "Please choose an output folder."]

\* self.after(0, f): f joins the event loop's pending calls.
after(f) == after_queue' = Append(after_queue, f)

ui_update(pct, msg) ==
    /\ after([kind |-> "update", pct |-> pct, msg |-> msg])
    /\ UNCHANGED uivars

ui_note_direct(msg) ==
    /\ note_var' = msg
    /\ UNCHANGED <<after_queue, status_var, progress_var, btn_state, msgbox>>

ui_note(msg) ==
    /\ after([kind |-> "note", text |-> msg])
    /\ UNCHANGED uivars

ui_done(msg) ==
    /\ after([kind |-> "done", msg |-> msg])
    /\ UNCHANGED uivars

ui_error_dropped(msg) == UNCHANGED <<after_queue, uivars>>

ui_error(msg) ==
    /\ after([kind |-> "error", message |-> msg])
    /\ UNCHANGED uivars

----------------------------------------------------------------------------
(* The hooks make_ydl_opts hands to yt-dlp *)

\* d.get(key) of a key the dict lacks, or whose value is None.
NoneInt == -1

\* a or b  for numbers: None and 0 are false.
py_or(a, b) == IF a # NoneInt /\ a # 0 THEN a ELSE b

\* (downloaded / total * 100.0) if total else 0.0.  The byte counts the model
\* feeds in make the quotient a whole number, which the float computes exactly.
percent(downloaded, total) == IF total # 0 THEN (downloaded * 100) \div total ELSE 0

\* The dicts yt-dlp passes to a progress hook.
ProgressDicts ==
    [status : {"downloading"}, total_bytes : {NoneInt, 0, 4},
     total_bytes_estimate : {2}, downloaded_bytes : {3}]
    \cup {[status |-> "downloading", total_bytes |-> 0,
           total_bytes_estimate |-> NoneInt, downloaded_bytes |-> NoneInt]}
    \cup [status : {"finished", "error"}, total_bytes : {4},
          total_bytes_estimate : {NoneInt}, downloaded_bytes : {NoneInt}]

progress_hook(d) ==
    IF d.status = "downloading"
    THEN LET total == py_or(py_or(d.total_bytes, d.total_bytes_estimate), 0)
             downloaded == py_or(d.downloaded_bytes, 0)
             pct == percent(downloaded, total)
         IN  ui_update(pct, MsgDownloading(pct))
    ELSE IF d.status = "finished"
    THEN ui_update(100, MsgFinished)
    ELSE UNCHANGED <<after_queue, uivars>>

\* The dicts yt-dlp passes to a post-processing hook; postprocessor "" is a
\* dict without that key.
PostprocessorDicts ==
    {[status |-> "started", postprocessor |-> "Merger"],
     [status |-> "started", postprocessor |-> ""],
     [status |-> "processing", postprocessor |-> "Merger"],
     [status |-> "finished", postprocessor |-> "Merger"]}

postprocessor_hook(d) ==
    LET name == d.postprocessor
    IN  IF d.status = "started"
        THEN ui_note(<<"Post-processing started: ",
                       IF name # "" THEN name ELSE "processing", "...">>)
        ELSE IF d.status = "finished"
        THEN ui_note(<<"Post-processing finished.">>)
        ELSE UNCHANGED <<after_queue, uivars>>

\* make_ydl_opts as the worker calls it: the note it emits; the dict it returns
\* is ydl_opts_for(find_ffmpeg_folder, out_dir).
make_ydl_opts_note == ui_note(note_for(find_ffmpeg_folder))

----------------------------------------------------------------------------
(* The worker threads *)

Tids == 1..MaxRuns

NoOpts == [unbound |-> TRUE]
NoExc == [cls |-> "", msg |-> ""]
\* What yt-dlp, the filesystem or the options code can raise: subclasses of Exception.
Errors == {[cls |-> "DownloadError", msg |-> "ERROR: Video unavailable"]}

\* str(e)
str_exc(e) == e.msg

catches_nothing(e) == FALSE

\* except Exception as e:  whether the clause catches e.
catches(e) == e.cls \in {"DownloadError", "OSError"}

\* A dict is its set of <<key, value>> items; info is None or a dict.
INFO_NONE == [is_none |-> TRUE, items |-> {}]
Infos == {INFO_NONE,
          [is_none |-> FALSE, items |-> {<<"id", "abc123">>}],
          [is_none |-> FALSE, items |-> {<<"id", "abc123">>, <<"title", "T">>}]}

\* info or {}
info_or_empty(info) == IF info.is_none \/ info.items = {} THEN {} ELSE info.items

\* dict.get(key, default)
dict_get(items, key, default) ==
    IF \E p \in items : p[1] = key
    THEN (CHOOSE p \in items : p[1] = key)[2]
    ELSE default

Unborn ==
    [pc |-> "unborn", url |-> <<>>, out_dir |-> <<>>, ydl_opts |-> NoOpts,
     files_left |-> 0, events |-> 0, exc |-> NoExc]

\* The thread's record once the with block has closed the YoutubeDL object.
closed(th) == [th EXCEPT !.files_left = 0, !.events = 0]

\* A thread is alive from Thread.start() until its target has returned.
alive(t) == threads[t].pc \notin {"unborn", "dead", "crashed"}

\* line 232: ydl_opts = make_ydl_opts(url, out_dir, self.ui_update, self.ui_note)
WorkerMakeOpts(t) ==
    /\ threads[t].pc = "makeopts"
    /\ make_ydl_opts_note
    /\ threads' = [threads EXCEPT
           ![t].ydl_opts = ydl_opts_for(find_ffmpeg_folder, threads[t].out_dir),
           ![t].pc = "ydl"]
    /\ UNCHANGED <<url_var, out_var, nstarted, made_dirs, envvars, callvars>>

\* lines 234-235, yt-dlp choosing what to fetch: one alternative of the format
\* expression, and one file for each of its selectors.
LibSelect(t) ==
    /\ threads[t].pc = "ydl"
    /\ \E i \in 1..Len(threads[t].ydl_opts.format) :
          threads' = [threads EXCEPT
              ![t].files_left = Len(threads[t].ydl_opts.format[i]),
              ![t].pc = "fetch"]
    /\ UNCHANGED <<url_var, out_var, uivars, after_queue, nstarted, made_dirs,
                   envvars, callvars>>

\* yt-dlp calling the progress hook while it fetches a file: any number of
\* "downloading" (or other) calls, then "finished" for that file.
LibProgress(t) ==
    /\ threads[t].pc = "fetch"
    /\ threads[t].files_left > 0
    /\ \E d \in ProgressDicts :
          /\ d.status # "finished" => threads[t].events < MaxEvents
          /\ progress_hook(d)
          /\ threads' = [threads EXCEPT
                ![t].files_left = IF d.status = "finished" THEN @ - 1 ELSE @,
                ![t].events = IF d.status = "finished" THEN @ ELSE @ + 1]
    /\ UNCHANGED <<url_var, out_var, nstarted, made_dirs, envvars, callvars>>

\* yt-dlp calling the post-processing hook once every file is fetched.
LibPostprocess(t) ==
    /\ threads[t].pc = "fetch"
    /\ threads[t].files_left = 0
    /\ threads[t].events < MaxEvents
    /\ \E d \in PostprocessorDicts : postprocessor_hook(d)
    /\ threads' = [threads EXCEPT ![t].events = @ + 1]
    /\ UNCHANGED <<url_var, out_var, nstarted, made_dirs, envvars, callvars>>

\* lines 235-238: extract_info returns, and the worker's last statement
\* schedules ui_done.
WorkerReturn(t) ==
    /\ threads[t].pc = "fetch"
    /\ threads[t].files_left = 0
    /\ \E info \in Infos :
          LET title == dict_get(info_or_empty(info), "title", "Done")
          IN  /\ ui_done(MsgDone(title))
              /\ threads' = [threads EXCEPT ![t] = [closed(@) EXCEPT !.pc = "exit"]]
    /\ UNCHANGED <<url_var, out_var, nstarted, made_dirs, envvars, callvars>>

\* An exception raised in the try block (in make_ydl_opts, in YoutubeDL(...) or
\* in extract_info), and lines 240-241 when the except clause catches it.
WorkerRaise(t) ==
    /\ threads[t].pc \in {"makeopts", "ydl", "fetch"}
    /\ \E e \in Errors :
          IF catches(e)
          THEN /\ ui_error(str_exc(e))
               /\ threads' = [threads EXCEPT
                      ![t] = [closed(@) EXCEPT !.exc = e, !.pc = "exit"]]
          ELSE /\ threads' = [threads EXCEPT
                      ![t] = [closed(@) EXCEPT !.exc = e, !.pc = "crashed"]]
               /\ UNCHANGED <<after_queue, uivars>>
    /\ UNCHANGED <<url_var, out_var, nstarted, made_dirs, envvars, callvars>>

\* _download_worker returns and the thread ends; its locals end with it.
ThreadExit(t) ==
    /\ threads[t].pc = "exit"
    /\ threads' = [threads EXCEPT ![t] = [Unborn EXCEPT !.pc = "dead"]]
    /\ UNCHANGED <<url_var, out_var, uivars, after_queue, nstarted, made_dirs,
                   envvars, callvars>>

----------------------------------------------------------------------------
(* The UI thread: the user's input and the event loop *)

\* str(Path.home() / "Downloads"), the folder entry's first text.
HOME_DOWNLOADS == <<"~", "/", "D">>

\* What the user pastes or types into the URL entry.
UrlTexts == {<<" ", "Y", "o", "u", "T", "u", ".", "b", "e", "/", "a", " ">>}
\* What the user types into the folder entry.
OutTexts == {<<" ">>}
\* What filedialog.askdirectory returns: "" when the dialog is cancelled.
Folders == {<<>>, HOME_DOWNLOADS}

EditUrl ==
    /\ \E text \in UrlTexts : url_var' = text
    /\ msgbox' = NoBox
    /\ UNCHANGED <<out_var, status_var, note_var, progress_var, btn_state, after_queue, threads, nstarted, made_dirs,
                   envvars, callvars>>

EditOut ==
    /\ \E text \in OutTexts : out_var' = text
    /\ msgbox' = NoBox
    /\ UNCHANGED <<url_var, status_var, note_var, progress_var, btn_state, after_queue, threads, nstarted, made_dirs,
                   envvars, callvars>>

pick_folder ==
    /\ \E folder \in Folders :
          out_var' = IF folder # <<>> THEN folder ELSE out_var
    /\ msgbox' = NoBox
    /\ UNCHANGED <<url_var, status_var, note_var, progress_var, btn_state, after_queue, threads, nstarted, made_dirs,
                   envvars, callvars>>

url_check_only(url, out_dir) == is_youtube_url(url)

\* The two checks of start_download, both passed.
input_ok(url, out_dir) == is_youtube_url(url) /\ out_dir # <<>>

btn_left_enabled == "normal"

\* line 201: self.btn_download.config(state="disabled")
btn_while_running == "disabled"

\* A click on the download button; a disabled button runs no command.
start_download ==
    /\ btn_state = "normal"
    /\ LET url == strip(url_var)
           out_dir == strip(out_var)
       IN  IF ~input_ok(url, out_dir)
           THEN /\ msgbox' = IF ~is_youtube_url(url) THEN BOX_BAD_URL ELSE BOX_NO_FOLDER
                /\ UNCHANGED <<status_var, note_var, progress_var, btn_state,
                               threads, nstarted, made_dirs>>
           ELSE /\ nstarted < MaxRuns
                /\ made_dirs' = made_dirs \cup {out_dir}
                /\ btn_state' = btn_while_running
                /\ progress_var' = 0
                /\ status_var' = MsgStarting
                /\ note_var' = <<>>
                /\ threads' = [threads EXCEPT ![nstarted + 1] =
                       [Unborn EXCEPT !.pc = "makeopts", !.url = url, !.out_dir = out_dir]]
                /\ nstarted' = nstarted + 1
                /\ msgbox' = NoBox
    /\ UNCHANGED <<url_var, out_var, after_queue, envvars, callvars>>

\* The event loop running the oldest pending after(0, f) call: the lambda of
\* ui_update or ui_note, or the f of ui_done or ui_error.
RunDeferred ==
    /\ after_queue # <<>>
    /\ LET f == Head(after_queue)
       IN  CASE f.kind = "update" ->
                  /\ progress_var' = f.pct
                  /\ status_var' = f.msg
                  /\ msgbox' = NoBox
                  /\ UNCHANGED <<note_var, btn_state>>
             [] f.kind = "note" ->
                  /\ note_var' = f.text
                  /\ msgbox' = NoBox
                  /\ UNCHANGED <<status_var, progress_var, btn_state>>
             [] f.kind = "done" ->
                  /\ progress_var' = 100
                  /\ status_var' = f.msg
                  /\ btn_state' = "normal"
                  /\ msgbox' = NoBox
                  /\ UNCHANGED note_var
             [] f.kind = "error" ->
                  /\ btn_state' = "normal"
                  /\ status_var' = MsgFailed
                  /\ msgbox' = [title |-> "Download error", message |-> f.message]
                  /\ UNCHANGED <<note_var, progress_var>>
    /\ after_queue' = Tail(after_queue)
    /\ UNCHANGED <<url_var, out_var, threads, nstarted, made_dirs, envvars, callvars>>

----------------------------------------------------------------------------
(* The application *)

NoRet == [fn |-> "", value |-> FALSE]

\* The tool files present where the application runs: none, or both in the
\* program's directory.
AppFilesystems ==
    {[d \in Dirs |-> {}],
     [d \in Dirs |-> IF d = SCRIPT_DIR THEN ToolFiles ELSE {}]}

\* App.__init__
InitApp ==
    /\ url_var = <<>>
    /\ out_var = HOME_DOWNLOADS
    /\ status_var = MsgIdle
    /\ note_var = <<>>
    /\ progress_var = 0
    /\ btn_state = "normal"
    /\ msgbox = NoBox
    /\ after_queue = <<>>
    /\ threads = [t \in Tids |-> Unborn]
    /\ nstarted = 0
    /\ made_dirs = {}

Init ==
    /\ InitApp
    /\ fs \in AppFilesystems
    /\ frozen = FALSE
    /\ meipass = NoPath
    /\ arg = <<>>
    /\ ret = NoRet

WorkerStep(t) ==
    \/ WorkerMakeOpts(t)
    \/ LibSelect(t)
    \/ LibProgress(t)
    \/ LibPostprocess(t)
    \/ WorkerReturn(t)
    \/ WorkerRaise(t)
    \/ ThreadExit(t)

Next ==
    \/ EditUrl
    \/ EditOut
    \/ pick_folder
    \/ start_download
    \/ RunDeferred
    \/ \E t \in Tids : WorkerStep(t)

Spec == Init /\ [][Next]_vars

\* The event loop keeps running deferred calls and the threads keep running
\* (yt-dlp's call returns or raises): while a deferred call is pending or a
\* thread can take a step, one of them is eventually taken.
FairSpec == Spec /\ WF_vars(RunDeferred \/ \E t \in Tids : WorkerStep(t))

----------------------------------------------------------------------------
(* The helpers called on their own *)

UrlPrefixes == {<<>>, <<"h", "t", "t", "p", "s", ":", "/", "/">>, <<"y", "o", "u">>}
UrlCores ==
    {<<>>,
     <<"y","o","u","t","u","b","e",".","c","o","m">>,
     <<"Y","O","U","T","U","B","E",".","C","O","M">>,
     <<"w","w","w",".","Y","o","u","T","u","b","e",".","C","o","m">>,
     <<"y","o","u","t","u",".","b","e">>,
     <<"Y","O","U","T","U",".","B","E">>,
     <<"y","o","u","t","U",".","B","e">>,
     <<"y","o","u","t","u","b","e","c","o","m">>,
     <<"y","o","u","t","u","b","e",",","c","o","m">>,
     <<"y","o","u","t","u","b","e",".","c","o">>,
     <<"y","o","u","t","u",".","b">>,
     <<"Y","O","U","T","U",".","B">>,
     <<"y","o","u","t","u"," ","b","e">>,
     <<"u","t","u","b","e",".","c","o","m">>,
     <<"v","i","m","e","o",".","c","o","m">>}
UrlSuffixes == {<<>>, <<"/", "a", "b", "c", "1", "2", "3">>, <<"e">>, <<"M">>}

\* The arguments is_youtube_url is called with: None, and texts.
UrlInputs ==
    {NoneStr} \cup {p \o c \o x : p \in UrlPrefixes, c \in UrlCores, x \in UrlSuffixes}

InitUrl ==
    /\ InitApp
    /\ fs = [d \in Dirs |-> {}]
    /\ frozen = FALSE
    /\ meipass = NoPath
    /\ arg \in UrlInputs
    /\ ret = NoRet

CallIsYoutubeUrl ==
    /\ ret.fn = ""
    /\ ret' = [fn |-> "is_youtube_url", value |-> is_youtube_url(arg)]
    /\ UNCHANGED <<url_var, out_var, uivars, after_queue, threads, nstarted,
                   made_dirs, envvars, arg>>

SpecUrl == InitUrl /\ [][CallIsYoutubeUrl]_vars

\* Every placement of the tool files, packaged or not; arg keeps the
\* filesystem as it was before the call.
InitProbe ==
    /\ InitApp
    /\ fs \in [Dirs -> SUBSET ToolFiles]
    /\ frozen \in BOOLEAN
    /\ meipass \in {NoPath, MEI_DIR}
    /\ arg = fs
    /\ ret = NoRet

CallFindFfmpegFolder ==
    /\ ret.fn = ""
    /\ ret' = [fn |-> "find_ffmpeg_folder", value |-> find_ffmpeg_folder]
    /\ UNCHANGED <<url_var, out_var, uivars, after_queue, threads, nstarted,
                   made_dirs, envvars, arg>>

\* make_ydl_opts(url, out_dir, app.ui_update, app.ui_note)
CallMakeYdlOpts ==
    /\ ret.fn = ""
    /\ make_ydl_opts_note
    /\ ret' = [fn |-> "make_ydl_opts",
               value |-> ydl_opts_for(find_ffmpeg_folder, HOME_DOWNLOADS)]
    /\ UNCHANGED <<url_var, out_var, threads, nstarted, made_dirs, envvars, arg>>

NextProbe == CallFindFfmpegFolder \/ CallMakeYdlOpts

SpecProbe == InitProbe /\ [][NextProbe]_vars

----------------------------------------------------------------------------
(* Properties *)

\* The threads still inside the try block of _download_worker: they have not
\* yet scheduled their final ui_done or ui_error call.
Running == {t \in Tids : threads[t].pc \in {"makeopts", "ydl", "fetch"}}

Last(q) == q[Len(q)]

\* C1, as stated: at any time at most one background download thread is alive.
C1_AtMostOneAlive == Cardinality({t \in Tids : alive(t)}) <= 1

\* C1, amended: at any time at most one thread is inside the body of
\* _download_worker (has not yet scheduled its final callback), the button is
\* disabled while one is, and every other thread alive has already scheduled
\* its final callback and only has to return.
C1_AtMostOneDownloading ==
    /\ Cardinality(Running) <= 1
    /\ Running # {} => btn_state = "disabled"
    /\ \A t \in Tids : alive(t) /\ t \notin Running => threads[t].pc = "exit"

\* A thread starts its download while the thread of the run before is still
\* returning from its final call.
C1_Witness ==
    \E t1, t2 \in Tids : t1 # t2 /\ threads[t1].pc = "exit" /\ t2 \in Running

\* C2: no exception leaves _download_worker; once the latest run has raised
\* (and for as long as its thread has not ended), its pending calls end with ui_error's carrying str(e) and hold no ui_done,
\* and when they have run the status is "Failed." and the button is enabled,
\* never Done; running ui_error's call sets "Failed.", enables the button and
\* shows the string.
C2_ErrorEndsFailed ==
    /\ [](/\ \A t \in Tids : threads[t].pc # "crashed"
          /\ \A t \in Tids :
                (t = nstarted /\ threads[t].exc # NoExc) =>
                    /\ threads[t].pc = "exit"
                    /\ status_var.k # "Done"
                    /\ \A i \in 1..Len(after_queue) : after_queue[i].kind # "done"
                    /\ IF after_queue # <<>>
                       THEN /\ Last(after_queue).kind = "error"
                            /\ Last(after_queue).message = threads[t].exc.msg
                            /\ btn_state = "disabled"
                       ELSE status_var = MsgFailed /\ btn_state = "normal")
    /\ [][(after_queue # <<>> /\ Head(after_queue).kind = "error"
              /\ after_queue' = Tail(after_queue)) =>
          (/\ status_var' = MsgFailed
           /\ btn_state' = "normal"
           /\ msgbox' = [title |-> "Download error",
                         message |-> Head(after_queue).message])]_vars

\* A run that raised has ended: Failed, the error shown, the button enabled.
C2_Witness ==
    /\ nstarted > 0
    /\ threads[nstarted].exc # NoExc
    /\ after_queue = <<>>
    /\ status_var = MsgFailed
    /\ btn_state = "normal"
    /\ msgbox = [title |-> "Download error", message |-> "ERROR: Video unavailable"]

\* The input of a click is bad: the trimmed URL fails the check or the trimmed
\* folder is empty.
BadInput == ~is_youtube_url(strip(url_var)) \/ strip(out_var) = <<>>

\* C3: a click with bad input starts no thread, leaves the button enabled and
\* the progress value, the status and the note as they were, and shows a
\* validation error; a thread is started only by a click with good input.
C3_BadClickChangesNothing ==
    [][/\ (start_download /\ BadInput) =>
              /\ UNCHANGED <<threads, nstarted, after_queue, made_dirs>>
              /\ UNCHANGED <<progress_var, status_var, note_var>>
              /\ btn_state' = "normal"
              /\ msgbox' \in {BOX_BAD_URL, BOX_NO_FOLDER}
       /\ (nstarted' # nstarted \/ \E t \in Tids : threads[t].pc = "unborn"
                                                    /\ threads'[t].pc # "unborn") =>
              ~BadInput]_vars

\* A click with an empty folder after a finished run: the run's result stays.
C3_Witness ==
    /\ msgbox = BOX_NO_FOLDER
    /\ status_var.k = "Done"
    /\ progress_var = 100
    /\ btn_state = "normal"
    /\ nstarted = 1

Rank(k) ==
    CASE k = "Idle" -> 0
      [] k = "Starting" -> 1
      [] k = "Downloading" -> 2
      [] k = "Processing" -> 3
      [] k \in {"Done", "Failed"} -> 4

\* C4: within a run the status never moves backwards along
\* Idle, Starting, Downloading, Processing, Done or Failed: Processing is never
\* followed by Downloading, and Done and Failed are left only by the next
\* click, for Starting.
C4_StatusMovesForward ==
    [][LET a == status_var.k
           b == status_var'.k
       IN  \/ status_var' = status_var
           \/ b = "Starting" /\ a \in {"Idle", "Done", "Failed"} /\ nstarted' = nstarted + 1
           \/ a \notin {"Done", "Failed"} /\ b # "Starting" /\ Rank(b) >= Rank(a)
               /\ ~(a = "Processing" /\ b = "Downloading")]_vars

\* C5: every run that starts (the button is disabled from its start on)
\* reaches the state where its calls have all run and the button is enabled
\* again, with the status "Done: <title>" at 100 or "Failed."; as long as the
\* run's thread has not ended, Done is the status exactly when it did not raise.
C5_RunEnds ==
    (btn_state = "disabled") ~>
        (/\ btn_state = "normal"
         /\ after_queue = <<>>
         /\ nstarted > 0
         /\ threads[nstarted].pc \in {"exit", "dead"}
         /\ \/ status_var \in {MsgDone("T"), MsgDone("Done")} /\ progress_var = 100
            \/ status_var = MsgFailed
         /\ threads[nstarted].pc = "exit" =>
                (threads[nstarted].exc = NoExc <=> status_var.k = "Done"))

\* A second run has ended in Done with the button enabled again, its thread
\* still returning.
C5_Witness ==
    /\ nstarted = 2
    /\ threads[2].pc = "exit"
    /\ threads[2].exc = NoExc
    /\ after_queue = <<>>
    /\ status_var = MsgDone("T")
    /\ progress_var = 100
    /\ btn_state = "normal"

\* What a format alternative can produce: for each of its selectors a stream
\* the selector accepts, merged into one file.
Picks(alt) ==
    {pick \in [1..Len(alt) -> Streams] :
        \A i \in 1..Len(alt) : selector_matches(alt[i], pick[i])}
VideoOnly(pick) ==
    /\ \E i \in DOMAIN pick : pick[i].video
    /\ \A i \in DOMAIN pick : ~pick[i].audio
CanSelectVideoOnly(fmt) ==
    \E a \in 1..Len(fmt) : \E pick \in Picks(fmt[a]) : VideoOnly(pick)
\* The first choice of the expression is a video stream plus an audio stream.
RequestsSeparate(fmt) ==
    /\ Len(fmt[1]) = 2
    /\ Picks(fmt[1]) # {}
    /\ \A pick \in Picks(fmt[1]) : pick[1].video /\ pick[2].audio /\ ~pick[2].video
\* Every choice of the expression is one stream holding both tracks.
RequiresSingleWithBoth(fmt) ==
    \A a \in 1..Len(fmt) :
        /\ Len(fmt[a]) = 1
        /\ \A pick \in Picks(fmt[a]) : pick[1].video /\ pick[1].audio

\* The candidates in the order the claim gives them.
CandidateOrder ==
    (IF meipass = NoPath THEN <<>> ELSE <<meipass>>)
        \o <<IF frozen THEN EXE_DIR ELSE SCRIPT_DIR,
             (IF frozen THEN EXE_DIR ELSE SCRIPT_DIR) \o <<"ffmpeg">>>>

C7_FirstWithBoth ==
    ret.fn = "find_ffmpeg_folder" =>
        LET both(i) == {"ffmpeg.exe", "ffprobe.exe"} \subseteq fs[CandidateOrder[i]]
        IN  /\ fs = arg
            /\ (ret.value = NoPath) <=> (\A i \in 1..Len(CandidateOrder) : ~both(i))
            /\ ret.value # NoPath =>
                 \E i \in 1..Len(CandidateOrder) :
                     /\ ret.value = CandidateOrder[i]
                     /\ both(i)
                     /\ \A j \in 1..(i - 1) : ~both(j)

\* The extraction directory holds one tool only, and the program directory
\* wins over its "ffmpeg" subfolder, which qualifies too.
C7_Witness ==
    /\ ret.fn = "find_ffmpeg_folder"
    /\ frozen
    /\ meipass = MEI_DIR
    /\ fs[MEI_DIR] = {"ffmpeg.exe"}
    /\ fs[EXE_DIR] = ToolFiles
    /\ fs[EXE_DIR \o <<"ffmpeg">>] = ToolFiles
    /\ ret.value = EXE_DIR

\* c is the letter n in either case.
SameLetter(c, n) == c = n \/ \E i \in 1..26 : Lower[i] = n /\ Upper[i] = c
ContainsIgnoringCase(s, needle) ==
    \E off \in 0..(Len(s) - Len(needle)) :
        \A j \in 1..Len(needle) : SameLetter(s[off + j], needle[j])

\* C8: is_youtube_url accepts exactly the strings that contain "youtube.com" or
\* "youtu.be" in any mix of cases, and rejects None and the empty string.
C8_AcceptsExactlyYoutube ==
    ret.fn = "is_youtube_url" =>
        ret.value =
            (/\ arg # NoneStr
             /\ \/ ContainsIgnoringCase(arg, <<"y","o","u","t","u","b","e",".","c","o","m">>)
                \/ ContainsIgnoringCase(arg, <<"y","o","u","t","u",".","b","e">>))

\* An upper-case host is accepted.
C8_Witness ==
    /\ ret.fn = "is_youtube_url"
    /\ arg = <<"h","t","t","p","s",":","/","/","Y","O","U","T","U",".","B","E","/",
               "a","b","c","1","2","3">>
    /\ ret.value = TRUE

\* C9: while a run is on (the button is disabled) the progress value, the
\* status, the note and the button change only in a step of the UI thread that
\* runs the oldest deferred call, and no step of a worker thread changes them.
C9_OnlyDeferredCallsWriteUI ==
    [][/\ (btn_state = "disabled"
              /\ <<progress_var, status_var, note_var, btn_state>>' #
                 <<progress_var, status_var, note_var, btn_state>>) =>
          (after_queue # <<>> /\ after_queue' = Tail(after_queue) /\ threads' = threads)
       /\ (threads' # threads /\ nstarted' = nstarted) =>
          UNCHANGED <<progress_var, status_var, note_var, btn_state>>]_vars

\* The UI shows a progress event and a hook's note while the worker is fetching.
C9_Witness ==
    \E t \in Tids :
        /\ threads[t].pc = "fetch"
        /\ status_var.k = "Downloading"
        /\ note_var = NOTE_DETECTED

\* C10: every percent handed to the UI lies in 0..100.
C10_PercentInRange ==
    /\ progress_var \in 0..100
    /\ \A i \in 1..Len(after_queue) :
          after_queue[i].kind = "update" => after_queue[i].pct \in 0..100

=============================================================================
